---- MODULE Spec2Model ----
(***************************************************************************)
(* Model of mtl::hashing<int> (mtl/include/mtl/hashing.h), the Hopscotch   *)
(* hash set of My-Template-Library, with std::hash<int> (the identity).    *)
(*                                                                         *)
(* A table is a record [data, size, max]: data is the Cell array data_     *)
(* (a function on 0..max-1), size is size_ and max is max_size_.           *)
(* size_ is a size_t; it is kept as the signed reading of the 64-bit       *)
(* value, so -1 stands for 2^64 - 1 (see SizeGE).                          *)
(***************************************************************************)
EXTENDS Integers, FiniteSets, Sequences, TLC

VARIABLES data_, size_, max_size_, last, present, distinct_run, steps,
          sorting, queue, tree

vars == <<data_, size_, max_size_, last, present, distinct_run, steps,
          sorting, queue, tree>>

(* hashing.h:36-39 *)
MAX_DIST == 32
DEFAULT_SIZE == 101

(* bounds of the model: the number of calls in a run, the laps of colliding  *)
(* elements per home, and the largest capacity an expand may reach          *)
MaxOps == 4
MaxLap == 1
MaxCapacity == 211

Min(S) == CHOOSE x \in S : \A y \in S : x <= y

(* ------------------------------ Cell ---------------------------------- *)

(* Cell() : occupied_ {false}, hop_info_ all zero, elem_ value-initialised *)
EmptyCell == [occupied |-> FALSE, hop_info |-> {}, elem |-> 0]

get_hop(c, dist) == dist \in c.hop_info

(* Cell::set_hop also marks the cell it is called on occupied *)
set_hop(c, dist) == [c EXCEPT !.hop_info = @ \cup {dist}, !.occupied = TRUE]

clear_hop(c, dist) == [c EXCEPT !.hop_info = @ \ {dist}, !.occupied = FALSE]

set_element(c, e) == [c EXCEPT !.elem = e, !.occupied = TRUE]

set_unoccupied(c) == [c EXCEPT !.occupied = FALSE]

(* what a read of data_[k] with k >= max_size_ may yield *)
Garbage == {EmptyCell, [occupied |-> TRUE, hop_info |-> {0}, elem |-> 0]}

(* ------------------------------ primes -------------------------------- *)

is_prime(num) ==
    IF num <= 1 THEN FALSE
    ELSE IF num <= 3 THEN TRUE
    ELSE IF num % 2 = 0 \/ num % 3 = 0 THEN FALSE
    ELSE \A k \in 0..num :
            LET i == 5 + 6 * k
            IN  i * i <= num => (num % i # 0 /\ num % (i + 2) # 0)

RECURSIVE next_prime_from(_)
next_prime_from(prime) ==
    IF is_prime(prime + 1) THEN prime + 1 ELSE next_prime_from(prime + 1)

next_prime(n) == IF n <= 1 THEN 2 ELSE next_prime_from(n)

(* twice the size made odd, with no search for a prime *)
get_next_size_odd(old_size) == old_size * 2 + 1

get_next_size_(old_size) == next_prime(old_size * 2)

(* the elements the operations are called with: the elements of home 0 and   *)
(* of the last home of the default capacity, and those of the last home of   *)
(* the capacity after one expand, MaxLap + 1 of each                        *)
Colliding(home, capacity) == {home + k * capacity : k \in 0..MaxLap}

Elems ==
    Colliding(0, DEFAULT_SIZE)
        \cup Colliding(DEFAULT_SIZE - 1, DEFAULT_SIZE)
        \cup Colliding(get_next_size_(DEFAULT_SIZE) - 1,
                       get_next_size_(DEFAULT_SIZE))

(* ------------------------------ table --------------------------------- *)

(* init(size): a fresh array of `size` default-constructed cells *)
init(size) ==
    [data |-> [i \in 0..(size - 1) |-> EmptyCell], size |-> 0, max |-> size]

hash_value(t, elem) == elem % t.max

(* size_ >= n on size_t, size_ in its signed reading *)
SizeGE(s, n) == s < 0 \/ s >= n

(* the least size with size >= max * 0.8 taken exactly (no truncation) *)
LoadLimitExact(max) == (max * 4 + 4) \div 5

(* static_cast<size_t>(max_size_ * MAX_LOAD_FACTOR), MAX_LOAD_FACTOR = 0.8 *)
LoadLimit(max) == (max * 4) \div 5

(* forward distance used by insert's loop condition *)
Dist(t, hash_val, pos) ==
    IF pos >= hash_val THEN pos - hash_val ELSE t.max - hash_val + pos

Stops(t, elem, pos) ==
    ~(t.data[pos].occupied /\ t.data[pos].elem # elem)

(* find_pos loops for ever when no slot stops the probe *)
FindPosTerminates(t, elem) == {p \in 0..(t.max - 1) : Stops(t, elem, p)} # {}

(* an iteration of find_pos that steps over a slot holding elem itself *)
find_pos_step_past_equal(t, elem, pos) ==
    IF t.data[pos].occupied
    THEN IF pos + 1 = t.max THEN 0 ELSE pos + 1
    ELSE pos

(* one test of the while condition of find_pos at pos and, when it holds,    *)
(* the loop body; pos itself when the loop ends there                        *)
find_pos_step(t, elem, pos) ==
    IF t.data[pos].occupied /\ t.data[pos].elem # elem
    THEN IF pos + 1 = t.max THEN 0 ELSE pos + 1
    ELSE pos

(* the while loop of find_pos entered at pos, its first n iterations (run    *)
(* as two halves one after the other, which keeps the evaluation shallow;    *)
(* p, where the first half ends, is the one element of a singleton, and so   *)
(* is the result); the loop ends at the first pos that an iteration leaves   *)
(* as it is                                                                  *)
RECURSIVE find_pos_from(_, _, _, _)
find_pos_from(t, elem, pos, n) ==
    IF n <= 1
    THEN find_pos_step(t, elem, pos)
    ELSE Min({IF find_pos_step(t, elem, p) = p
              THEN p
              ELSE find_pos_from(t, elem, p, n - n \div 2) :
                 p \in {find_pos_from(t, elem, pos, n \div 2)}})

(* find_pos: a probe that stops does so within max_size_ iterations *)
find_pos(t, elem) == find_pos_from(t, elem, hash_value(t, elem), t.max)

contains(t, elem) ==
    LET cell == t.data[hash_value(t, elem)]
    IN  \E i \in 0..(MAX_DIST - 1) : get_hop(cell, i) /\ cell.elem = elem

(* move_elem that leaves the slot it took the element from occupied *)
move_elem_keeps_source(t, pos, g) ==
    LET start == IF pos < MAX_DIST - 1
                 THEN t.max + pos - MAX_DIST + 1
                 ELSE pos + 1 - MAX_DIST
        cell(i) == IF start + i < t.max THEN t.data[start + i] ELSE g
        bits(i) == {j \in 0..(MAX_DIST - i - 2) : get_hop(cell(i), j)}
        found == {i \in 0..(MAX_DIST - 2) : bits(i) # {}}
    IN  IF found = {}
        THEN [t |-> t, pos |-> t.max, oob |-> start + MAX_DIST - 2 >= t.max]
        ELSE LET i == Min(found)
                 j == Min(bits(i))
                 new_pos == (start + i + j) % t.max
             IN  [t |-> [t EXCEPT
                            !.data[pos] = set_element(@, t.data[new_pos].elem)],
                  pos |-> new_pos,
                  oob |-> start + i >= t.max]

(* move_elem(pos): the first window cell start + i (i ascending) with a hop   *)
(* bit j < MAX_DIST - i - 1 (j ascending) gives new_pos; the element of      *)
(* new_pos is moved to pos.  `cell` is a copy, so clear_hop / set_hop on it  *)
(* do not reach data_.  A window cell at index >= max_size_ is read outside  *)
(* the array and yields g.  Result: [t, pos, oob].                           *)
move_elem(t, pos, g) ==
    LET start == IF pos < MAX_DIST - 1
                 THEN t.max + pos - MAX_DIST + 1
                 ELSE pos + 1 - MAX_DIST
        cell(i) == IF start + i < t.max THEN t.data[start + i] ELSE g
        bits(i) == {j \in 0..(MAX_DIST - i - 2) : get_hop(cell(i), j)}
        found == {i \in 0..(MAX_DIST - 2) : bits(i) # {}}
    IN  IF found = {}
        THEN [t |-> t, pos |-> t.max, oob |-> start + MAX_DIST - 2 >= t.max]
        ELSE LET i == Min(found)
                 j == Min(bits(i))
                 new_pos == (start + i + j) % t.max
             IN  [t |-> [t EXCEPT
                            !.data[pos] = set_element(@, t.data[new_pos].elem),
                            !.data[new_pos] = set_unoccupied(@)],
                  pos |-> new_pos,
                  oob |-> start + i >= t.max]

(* the displacement loop of insert (hashing.h:289-295).  Result:             *)
(* [t, pos, oob], pos = t.max when move_elem gave the sentinel.              *)
RECURSIVE displace(_, _, _, _)
displace(t, hash_val, pos, g) ==
    IF Dist(t, hash_val, pos) >= MAX_DIST
    THEN LET m == move_elem(t, pos, g)
         IN  IF m.pos = t.max
             THEN m
             ELSE LET r == displace(m.t, hash_val, m.pos, g)
                  IN  [r EXCEPT !.oob = @ \/ m.oob]
    ELSE [t |-> t, pos |-> pos, oob |-> FALSE]

(* hashing.h:286-300: probe, displace, store.  set_hop(pos - hash_val) is    *)
(* called on data_[pos]; pos - hash_val is a size_t, so with pos < hash_val  *)
(* it is >= MAX_DIST and std::bitset::set throws std::out_of_range after     *)
(* the element was assigned.  Result: [t, ret, threw, oob].                  *)
place(t, elem, g) ==
    LET hash_val == hash_value(t, elem)
        d == displace(t, hash_val, find_pos(t, elem), g)
        pos == d.pos
    IN  IF pos = t.max
        THEN [t |-> d.t, ret |-> FALSE, threw |-> FALSE, oob |-> d.oob]
        ELSE IF pos < hash_val
        THEN [t |-> [d.t EXCEPT !.data[pos].elem = elem],
              ret |-> FALSE, threw |-> TRUE, oob |-> d.oob]
        ELSE [t |-> [d.t EXCEPT !.data[pos] =
                                   set_hop([@ EXCEPT !.elem = elem],
                                           pos - hash_val),
                                !.size = @ + 1],
              ret |-> TRUE, threw |-> FALSE, oob |-> d.oob]

RECURSIVE insert(_, _, _)

(* the replay loop of rehash (hashing.h:347-352) over the old indices        *)
(* lo..hi-1, in ascending order (the range is split in two halves that run   *)
(* one after the other, which keeps the evaluation shallow): the result of   *)
(* each insert is dropped; an exception leaves the loop with the new array   *)
(* as it is.                                                                 *)
RECURSIVE replay(_, _, _, _, _)
replay(old, t, lo, hi, g) ==
    IF hi <= lo
    THEN [t |-> t, ret |-> TRUE, threw |-> FALSE, oob |-> FALSE]
    ELSE IF hi = lo + 1
    THEN IF old.data[lo].occupied
         THEN insert(t, old.data[lo].elem, g)
         ELSE [t |-> t, ret |-> TRUE, threw |-> FALSE, oob |-> FALSE]
    ELSE LET mid == (lo + hi) \div 2
             a == replay(old, t, lo, mid, g)
         IN  IF a.threw
             THEN a
             ELSE LET b == replay(old, a.t, mid, hi, g)
                  IN  [b EXCEPT !.oob = @ \/ a.oob]

rehash(t, new_capacity, g) == replay(t, init(new_capacity), 0, t.max, g)

expand(t, g) == rehash(t, get_next_size_(t.max), g)

NeedsExpand(t) == SizeGE(t.size, LoadLimit(t.max))

insert(t, elem, g) ==
    IF contains(t, elem)
    THEN [t |-> t, ret |-> FALSE, threw |-> FALSE, oob |-> FALSE]
    ELSE IF NeedsExpand(t)
    THEN LET x == expand(t, g)
         IN  IF x.threw
             THEN x
             ELSE LET r == place(x.t, elem, g)
                  IN  [r EXCEPT !.oob = @ \/ x.oob]
    ELSE place(t, elem, g)

(* rehash with size_ = 0 assigned before the allocation *)
rehash_reset_first(t, new_capacity, g, alloc_ok) ==
    IF alloc_ok
    THEN replay(t, init(new_capacity), 0, t.max, g)
    ELSE [t |-> [t EXCEPT !.size = 0],
          ret |-> FALSE, threw |-> TRUE, oob |-> FALSE]

(* rehash (hashing.h:336-354) with the outcome of allocate_memory: when      *)
(* allocator_.allocate throws std::bad_alloc, `data_ = allocate_memory(...)` *)
(* has assigned nothing and max_size_ and size_ are not yet touched; the     *)
(* exception leaves rehash, expand and insert.                               *)
rehash_alloc(t, new_capacity, g, alloc_ok) ==
    IF alloc_ok
    THEN replay(t, init(new_capacity), 0, t.max, g)
    ELSE [t |-> t, ret |-> FALSE, threw |-> TRUE, oob |-> FALSE]

(* remove: `cell` is a copy of the home cell, its element is the one that is *)
(* compared for every i, and clear_hop acts on the copy.  data_[hash_val+i]  *)
(* is not reduced modulo max_size_: past the array the write misses data_.   *)
remove(t, elem) ==
    LET hash_val == hash_value(t, elem)
        cell == t.data[hash_val]
        hit == {i \in 0..(MAX_DIST - 1) : get_hop(cell, i) /\ cell.elem = elem}
    IN  IF hit = {}
        THEN [t |-> t, ret |-> FALSE, threw |-> FALSE, oob |-> FALSE]
        ELSE LET i == Min(hit)
                 in_range == hash_val + i < t.max
             IN  [t |-> [t EXCEPT
                           !.data = IF in_range
                                    THEN [@ EXCEPT ![hash_val + i] =
                                                      set_unoccupied(@)]
                                    ELSE @,
                           !.size = @ - 1],
                  ret |-> TRUE, threw |-> FALSE, oob |-> ~in_range]

(* a clear() that keeps the capacity of the table *)
clear_keeping_capacity(t) == init(t.max)

(* clear() that resets size_ and leaves the cells as they are *)
clear_size_only(t) == [t EXCEPT !.size = 0]

(* clear(): clear_all() then init(DEFAULT_SIZE) *)
clear(t) == init(DEFAULT_SIZE)

(* --------------------------- construction ----------------------------- *)

(* hashing() *)
hashing_default == init(DEFAULT_SIZE)

(* hashing(init_max_size) with no rounding to a prime *)
hashing_unrounded(init_max_size) ==
    init(IF init_max_size > DEFAULT_SIZE THEN init_max_size ELSE DEFAULT_SIZE)

(* hashing(init_max_size) that takes next_prime whether or not               *)
(* init_max_size is prime                                                    *)
hashing_always_next(init_max_size) ==
    LET n == next_prime(init_max_size)
    IN  init(IF n > DEFAULT_SIZE THEN n ELSE DEFAULT_SIZE)

(* hashing(size_t init_max_size), hashing.h:207-213 *)
hashing_sized(init_max_size) ==
    LET n == IF ~is_prime(init_max_size)
             THEN next_prime(init_max_size)
             ELSE init_max_size
    IN  init(IF n > DEFAULT_SIZE THEN n ELSE DEFAULT_SIZE)

(* hashing(const self_t& rhs): init(rhs.max_size_), then insert the element  *)
(* of every occupied cell of rhs in index order.  Result: [t, ret, threw,    *)
(* oob]; threw means the constructor left by the exception of an insert.     *)
hashing_copy(rhs, g) == replay(rhs, init(rhs.max), 0, rhs.max, g)

(* operator=(const self_t& rhs) on the table t; same: this == &rhs.  Any     *)
(* other rhs: clear_all(), init(rhs.max_size_), then the inserts of the copy *)
(* constructor.                                                              *)
copy_assign(t, rhs, same, g) ==
    IF same
    THEN [t |-> t, ret |-> TRUE, threw |-> FALSE, oob |-> FALSE]
    ELSE replay(rhs, init(rhs.max), 0, rhs.max, g)

(* a table without an array: data_ = nullptr, size_ = max_size_ = 0 *)
NoArray == [data |-> <<>>, size |-> 0, max |-> 0]

(* hashing(self_t&& rhs): the new table takes data_, size_ and max_size_ of  *)
(* rhs; rhs.data_ = nullptr, then rhs.clear(), which ends in                 *)
(* init(DEFAULT_SIZE).  Result: [dst, src].                                  *)
hashing_move(rhs) == [dst |-> rhs, src |-> clear(rhs)]

(* operator=(self_t&& rhs) on the table t: t takes the three members, rhs    *)
(* gets nullptr, 0, 0.  The function has no return statement: flowing off    *)
(* its end is undefined, and the call either comes back or does not (a build *)
(* with -O2 ends with SIGSEGV).  Result: the set of [dst, src, returned].    *)
move_assign(t, rhs) ==
    {[dst |-> rhs, src |-> NoArray, returned |-> r] : r \in BOOLEAN}

(* ---------------------------- iterator -------------------------------- *)

(* hashing_iterator(begin_, end_, cur_): cur_ as an index into data_.        *)
(* begin() puts cur_ on data_, whatever slot 0 holds; end() on data_ +       *)
(* max_size_.                                                                *)
begin(t) == 0

end(t) == t.max

(* operator++: do { ++cur_; } while (cur_ < end_ && !cur_->is_occupied()) *)
iter_inc(t, cur) ==
    LET n == cur + 1
    IN  IF n >= t.max
        THEN n
        ELSE Min({p \in n..(t.max - 1) : t.data[p].occupied} \cup {t.max})

(* operator*: the element of the cell, occupied or not *)
iter_deref(t, cur) == t.data[cur].elem

(* for (itr = begin(); itr < end(); ++itr): the indices the loop visits *)
RECURSIVE visits(_, _)
visits(t, cur) ==
    IF cur < end(t) THEN <<cur>> \o visits(t, iter_inc(t, cur)) ELSE <<>>

(* operator--: do { --cur_; } while (cur_ >= begin_ && !cur_->is_occupied()); *)
(* with no occupied slot below cur the loop leaves cur_ on begin_ - 1         *)
iter_dec(t, cur) ==
    LET n == cur - 1
    IN  IF n < 0
        THEN n
        ELSE -Min({-p : p \in {q \in 0..n : t.data[q].occupied} \cup {-1}})

(* for (itr = end(); itr > begin();) { --itr; ... }: the indices the loop     *)
(* visits                                                                    *)
RECURSIVE rvisits(_, _)
rvisits(t, cur) ==
    IF cur > begin(t)
    THEN <<iter_dec(t, cur)>> \o rvisits(t, iter_dec(t, cur))
    ELSE <<>>

(* ------------------------------ state --------------------------------- *)

T == [data |-> data_, size |-> size_, max |-> max_size_]

(* for (i = lo; i < hi; ++i) set.insert(i), the loops of test_hash.cpp (run   *)
(* as two halves one after the other, like replay)                           *)
RECURSIVE Fill(_, _, _)
Fill(t, lo, hi) ==
    IF hi <= lo
    THEN t
    ELSE IF hi = lo + 1
    THEN insert(t, lo, EmptyCell).t
    ELSE LET mid == (lo + hi) \div 2
             a == Fill(t, lo, mid)
         IN  IF a.max > 0 THEN Fill(a, mid, hi) ELSE a

(* <<lo, n>>: nothing; a full neighbourhood at the start and at the end of   *)
(* the array (TestInsert, TestEdgeInsert); two short of the load limit, on   *)
(* homes that no element of Elems has                                        *)
Prefills == {<<0, 0>>, <<0, MAX_DIST>>, <<DEFAULT_SIZE - MAX_DIST, MAX_DIST>>,
             <<18, LoadLimit(DEFAULT_SIZE) - 2>>}

(* history variables.  last: the last call, its result, size_ before it and  *)
(* whether its argument was in `present` before it.  present: the elements   *)
(* whose last insert returned true and that no remove returning true and no  *)
(* clear has taken out since.  distinct_run: every call so far was an insert *)
(* of an element not inserted before, entered with size < capacity * 0.8,    *)
(* and none before the last one failed.                                      *)
NoOp ==
    [op |-> "init", arg |-> 0, ret |-> TRUE, threw |-> FALSE, oob |-> FALSE,
     size0 |-> 0, had |-> FALSE]

(* the runs of the hash set sort nothing and hold no priority_queue and no    *)
(* avl_tree                                                                  *)
NoSort == [op |-> "none"]

NoQueue == [op |-> "none"]

NoTree == [op |-> "none"]

Init ==
    \E f \in Prefills :
        LET t == Fill(init(DEFAULT_SIZE), f[1], f[1] + f[2])
        IN  /\ data_ = t.data
            /\ size_ = t.size
            /\ max_size_ = t.max
            /\ last = NoOp
            /\ present = {f[1] + k : k \in 0..(f[2] - 1)}
            /\ distinct_run = TRUE
            /\ steps = 0
            /\ sorting = NoSort /\ queue = NoQueue /\ tree = NoTree

Apply(op, e, r) ==
    /\ data_' = r.t.data
    /\ size_' = r.t.size
    /\ max_size_' = r.t.max
    /\ last' = [op |-> op, arg |-> e, ret |-> r.ret, threw |-> r.threw,
                oob |-> r.oob, size0 |-> size_, had |-> e \in present]
    /\ steps' = steps + 1
    /\ UNCHANGED <<sorting, queue, tree>>

Inserted(e, r) ==
    /\ Apply("insert", e, r)
    /\ present' = IF r.ret THEN present \cup {e} ELSE present
    /\ distinct_run' = (/\ distinct_run
                        /\ last.ret
                        /\ e \notin present
                        /\ 5 * size_ < 4 * max_size_)

Insert(e) ==
    /\ steps < MaxOps
    /\ FindPosTerminates(T, e)
    /\ NeedsExpand(T) => get_next_size_(max_size_) <= MaxCapacity
    /\ LET r == insert(T, e, EmptyCell)
       IN  IF r.oob
           THEN \E g \in Garbage : Inserted(e, insert(T, e, g))
           ELSE Inserted(e, r)

Remove(e) ==
    /\ steps < MaxOps
    /\ LET r == remove(T, e)
       IN  /\ Apply("remove", e, r)
           /\ present' = IF r.ret THEN present \ {e} ELSE present
    /\ distinct_run' = FALSE

Clear ==
    /\ steps < MaxOps
    /\ Apply("clear", 0,
             [t |-> clear(T), ret |-> TRUE, threw |-> FALSE, oob |-> FALSE])
    /\ present' = {}
    /\ distinct_run' = FALSE

Next ==
    \/ \E e \in Elems : Insert(e)
    \/ \E e \in Elems : Remove(e)
    \/ Clear

Spec == Init /\ [][Next]_vars

(* -------------------------- cluster runs ------------------------------ *)

(* the k-th element of a dense cluster.                                      *)
(* "start": MAX_DIST - 1 elements of the homes 0..30, then MAX_DIST - 1      *)
(* elements of the homes 0, 2, 4, ..., which land on the slots 31..61, the   *)
(* j-th of them at distance 31 - j from its home; then 62, 63, ... on their  *)
(* homes.  With the first 62 in the array the nearest empty slot of home 0   *)
(* is 62 and no cell of the window 31..61 has a hop bit that move_elem       *)
(* accepts.                                                                  *)
(* "expanded": the same cluster for the array after one expand.  The         *)
(* elements sit on distinct homes of the fresh table, in the order in which  *)
(* rehash replays them; 17 elements of other homes of both arrays follow,    *)
(* and last one more element of home 0 of the expanded array, which brings   *)
(* the fresh table to its load limit.                                        *)
(* "end": the last MAX_DIST - 1 homes but one (69..99), then a second        *)
(* element of home 69, which lands on the last slot at distance 31, then     *)
(* 0..29: the nearest empty slot of the homes 69..99 is 30, and the window   *)
(* of move_elem(30) starts on the last slot.                                 *)
(* "last": the element of the last home (100), then 0..30, each on its home: *)
(* the MAX_DIST slots from the last home on are taken and slot 31 is empty.  *)
(* "drained": 0..100, each followed by remove(0): every remove(0) returns    *)
(* true and decrements size_, so no insert sees the load limit; the slots    *)
(* 1..100 end occupied and slot 0 does not.                                  *)
ClusterElem(kind, k) ==
    IF kind = "drained"
    THEN k
    ELSE IF kind = "start"
    THEN IF k < MAX_DIST - 1 \/ k >= 2 * MAX_DIST - 2
         THEN k
         ELSE 2 * DEFAULT_SIZE + 2 * (k - MAX_DIST + 1)
    ELSE IF kind = "expanded"
    THEN IF k < MAX_DIST - 1
         THEN k
         ELSE IF k < 2 * MAX_DIST - 2
         THEN 4 * get_next_size_(DEFAULT_SIZE) + 2 * (k - MAX_DIST + 1)
         ELSE IF k < LoadLimit(DEFAULT_SIZE) - 1
         THEN DEFAULT_SIZE + MAX_DIST + 5 + 2 * (k - 2 * MAX_DIST + 2)
         ELSE 11 * get_next_size_(DEFAULT_SIZE)
    ELSE IF kind = "last"
    THEN IF k = 0 THEN DEFAULT_SIZE - 1 ELSE k - 1
    ELSE IF k < MAX_DIST - 1
         THEN DEFAULT_SIZE - MAX_DIST + k
         ELSE IF k = MAX_DIST - 1
         THEN 2 * DEFAULT_SIZE - MAX_DIST
         ELSE k - MAX_DIST

(* the element of a singleton: {f(a) : a \in {x}} evaluates x once *)
TheOne(S) == CHOOSE x \in S : TRUE

(* for (k = lo; k < hi; ++k) { set.insert(ClusterElem(kind, k)); and, in a    *)
(* drained run, set.remove(ClusterElem(kind, 0)); }, in two halves like Fill *)
RECURSIVE FillCluster(_, _, _, _)
FillCluster(t, kind, lo, hi) ==
    IF hi <= lo
    THEN t
    ELSE IF hi = lo + 1
    THEN TheOne({IF kind = "drained" THEN remove(a, ClusterElem(kind, 0)).t
                                      ELSE a :
                    a \in {insert(t, ClusterElem(kind, lo), EmptyCell).t}})
    ELSE LET mid == (lo + hi) \div 2
             a == FillCluster(t, kind, lo, mid)
         IN  IF a.max > 0 THEN FillCluster(a, kind, mid, hi) ELSE a

(* <<kind, n>>: the cluster at the start with 0 or 1 element behind it,      *)
(* which a move_elem into the slot after it can move; the table that holds   *)
(* the cluster of the expanded array; the cluster around the end; the full   *)
(* neighbourhood of the last home                                            *)
Clusters ==
    {<<"start", 2 * MAX_DIST - 2 + extra>> : extra \in 0..1}
        \cup {<<"expanded", LoadLimit(DEFAULT_SIZE)>>,
               <<"end", 2 * MAX_DIST - 2>>,
               <<"last", MAX_DIST>>,
               <<"drained", DEFAULT_SIZE>>}

InitCluster ==
    \E c \in Clusters :
        LET t == FillCluster(init(DEFAULT_SIZE), c[1], 0, c[2])
        IN  /\ data_ = t.data
            /\ size_ = t.size
            /\ max_size_ = t.max
            /\ last = NoOp
            /\ present = {ClusterElem(c[1], k) :
                             k \in (IF c[1] = "drained" THEN 1 ELSE 0)..(c[2] - 1)}
            /\ distinct_run = (c[1] # "drained")
            /\ steps = 0
            /\ sorting = NoSort /\ queue = NoQueue /\ tree = NoTree

(* elements no cluster holds: the first one of home 0 of the expanded array, *)
(* the second one of home 99, and the one of home MAX_DIST - 1               *)
ClusterProbes ==
    {get_next_size_(DEFAULT_SIZE), 2 * DEFAULT_SIZE - 2, MAX_DIST - 1}

(* bound: the number of calls after the cluster was built *)
MaxClusterOps == 2

ClusterInsert(e) == steps < MaxClusterOps /\ Insert(e)

ClusterRemove(e) == steps < MaxClusterOps /\ Remove(e)

ClusterClear == steps < MaxClusterOps /\ Clear

NextCluster ==
    \/ \E e \in Elems \cup ClusterProbes : ClusterInsert(e)
    \/ \E e \in Elems : ClusterRemove(e)
    \/ ClusterClear

SpecCluster == InitCluster /\ [][NextCluster]_vars

(* ------------------------- capacity runs ------------------------------ *)

(* bounds: the largest constructor argument tried (besides the one of        *)
(* TestConstructorWithInitSize) and the number of calls after the fill       *)
MaxInitSize == 150
MaxCapOps == 3

(* test_hash.cpp:11 *)
TestInitSize == 1000

(* elements that no fill of these runs inserts *)
CapElems == {10 * DEFAULT_SIZE, 10 * DEFAULT_SIZE + 1}

Constructed(op, n, t) ==
    /\ data_ = t.data
    /\ size_ = t.size
    /\ max_size_ = t.max
    /\ last = [NoOp EXCEPT !.op = op, !.arg = n]
    /\ present = {}
    /\ distinct_run = TRUE
    /\ steps = 0
    /\ sorting = NoSort /\ queue = NoQueue /\ tree = NoTree

InitCap ==
    \/ Constructed("hashing()", 0, hashing_default)
    \/ \E n \in (0..MaxInitSize) \cup {TestInitSize} :
          Constructed("hashing(n)", n, hashing_sized(n))

(* for (i = 0; i < n; ++i) set.insert(i) on the table just constructed, with *)
(* n one less than the load limit of its capacity: the second insert of a    *)
(* new element after it expands                                              *)
CapFill ==
    /\ last.op \in {"hashing()", "hashing(n)"}
    /\ last.arg <= MaxInitSize
    /\ LET n == LoadLimit(max_size_) - 1
           t == Fill(T, 0, n)
       IN  /\ data_' = t.data
           /\ size_' = t.size
           /\ max_size_' = t.max
           /\ last' = [NoOp EXCEPT !.op = "fill", !.arg = n]
           /\ present' = 0..(n - 1)
    /\ UNCHANGED <<distinct_run, steps, sorting, queue, tree>>

CapInsert(e) ==
    /\ steps < MaxCapOps
    /\ FindPosTerminates(T, e)
    /\ Inserted(e, insert(T, e, EmptyCell))

(* insert(e) of a new element at the load limit: expand() calls rehash, whose  *)
(* allocate_memory throws, and the exception leaves insert                     *)
CapInsertBadAlloc(e) ==
    /\ steps < MaxCapOps
    /\ ~contains(T, e) /\ NeedsExpand(T)
    /\ FindPosTerminates(T, e)
    /\ Apply("insert_bad_alloc", e,
             rehash_alloc(T, get_next_size_(max_size_), EmptyCell, FALSE))
    /\ present' = present
    /\ distinct_run' = FALSE

CapClear ==
    /\ steps < MaxCapOps
    /\ Apply("clear", 0,
             [t |-> clear(T), ret |-> TRUE, threw |-> FALSE, oob |-> FALSE])
    /\ present' = {}
    /\ distinct_run' = FALSE

NextCap ==
    \/ CapFill
    \/ \E e \in CapElems : CapInsert(e)
    \/ \E e \in CapElems : CapInsertBadAlloc(e)
    \/ CapClear

SpecCap == InitCap /\ [][NextCap]_vars

(* --------------------------- quick_sort.h ----------------------------- *)

(* A range of ints is a sequence a; an iterator is a position 0..Len(a) and  *)
(* *it is a[it + 1]; begin_it and end_it are the parameters begin and end.   *)
(* std::move of an int copies it.                                            *)

(* bounds: the longest range sorted and the largest value in it *)
MaxSortLen == 4
MaxSortValue == 2

(* do { --end; } while (begin != end && pivot < *end); *)
RECURSIVE scan_down(_, _, _, _)
scan_down(a, begin_it, end_it, pivot) ==
    LET e == end_it - 1
    IN  IF begin_it # e /\ pivot < a[e + 1]
        THEN scan_down(a, begin_it, e, pivot)
        ELSE e

(* do { ++begin; } while (begin != end && pivot > *begin); *)
RECURSIVE scan_up(_, _, _, _)
scan_up(a, begin_it, end_it, pivot) ==
    LET b == begin_it + 1
    IN  IF b # end_it /\ pivot > a[b + 1]
        THEN scan_up(a, b, end_it, pivot)
        ELSE b

(* the while (begin != end) loop of partition and the two statements after   *)
(* it                                                                        *)
RECURSIVE partition_loop(_, _, _, _)
partition_loop(a, begin_it, end_it, pivot) ==
    IF begin_it = end_it
    THEN [a |-> [a EXCEPT ![begin_it + 1] = pivot], ret |-> begin_it]
    ELSE LET e == scan_down(a, begin_it, end_it, pivot)
         IN  IF begin_it = e
             THEN [a |-> [a EXCEPT ![begin_it + 1] = pivot], ret |-> begin_it]
             ELSE LET a1 == [a EXCEPT ![begin_it + 1] = a[e + 1]]
                      b == scan_up(a1, begin_it, e, pivot)
                      a2 == IF b # e
                            THEN [a1 EXCEPT ![e + 1] = a1[b + 1]]
                            ELSE a1
                  IN  partition_loop(a2, b, e, pivot)

partition(a, begin_it, end_it) == partition_loop(a, begin_it, end_it, a[begin_it + 1])

RECURSIVE inplace_quicksort(_, _, _)
inplace_quicksort(a, begin_it, end_it) ==
    IF begin_it # end_it
    THEN LET p == partition(a, begin_it, end_it)
             a1 == inplace_quicksort(p.a, begin_it, p.ret)
         IN  inplace_quicksort(a1, p.ret + 1, end_it)
    ELSE a

(* stack<T> : basic_vector<T>.  data is the array (Len(data) is capacity_,   *)
(* the empty array is nullptr), size_ is stack::size_; basic_vector::size_   *)
(* is a different member that no stack operation changes from 0.             *)
stack_default == [data |-> <<>>, size_ |-> 0]

(* what an array element holds before anything is assigned to it *)
Unassigned == <<0, 0>>

(* basic_vector::expand: moves basic_vector::size_ = 0 elements *)
stack_expand(st, new_capacity) ==
    IF new_capacity <= Len(st.data)
    THEN st
    ELSE [st EXCEPT !.data = [i \in 1..new_capacity |-> Unassigned]]

(* stack::push: operator[](size_) = elem is a write through data_; with      *)
(* capacity_ = 0 expand(0) returns at once and data_ is nullptr              *)
stack_push(st, elem) ==
    LET g == IF st.size_ >= Len(st.data)
             THEN stack_expand(st, st.size_ * 2)
             ELSE st
    IN  IF st.size_ < Len(g.data)
        THEN [st |-> [data |-> [g.data EXCEPT ![st.size_ + 1] = elem],
                      size_ |-> st.size_ + 1],
              crashed |-> FALSE]
        ELSE [st |-> g, crashed |-> TRUE]

stack_top(st) == st.data[st.size_]

stack_pop(st) == [st EXCEPT !.size_ = @ - 1]

(* the while (!st.empty()) loop of inplace_quicksort_iterative *)
RECURSIVE iterative_loop(_, _)
iterative_loop(a, st) ==
    IF st.size_ = 0
    THEN [a |-> a, crashed |-> FALSE]
    ELSE LET cur == stack_top(st)
             st1 == stack_pop(st)
         IN  IF cur[1] = cur[2]
             THEN iterative_loop(a, st1)
             ELSE LET p == partition(a, cur[1], cur[2])
                      s1 == stack_push(st1, <<cur[1], p.ret>>)
                      s2 == stack_push(s1.st, <<p.ret + 1, cur[2]>>)
                  IN  IF s1.crashed \/ s2.crashed
                      THEN [a |-> p.a, crashed |-> TRUE]
                      ELSE iterative_loop(p.a, s2.st)

inplace_quicksort_iterative(a, begin_it, end_it) ==
    LET s0 == stack_push(stack_default, <<begin_it, end_it>>)
    IN  IF s0.crashed
        THEN [a |-> a, crashed |-> TRUE]
        ELSE iterative_loop(a, s0.st)

(* the ranges of the sorting runs *)
SortInputs ==
    UNION {[1..n -> 0..MaxSortValue] : n \in 0..MaxSortLen}

Sorted(op, begin_it, end_it, a, ret, crashed) ==
    /\ sorting.op = "range"
    /\ sorting' = [op |-> op, input |-> sorting.input, begin |-> begin_it,
                   end |-> end_it, a |-> a, ret |-> ret, crashed |-> crashed]
    /\ UNCHANGED <<data_, size_, max_size_, last, present, distinct_run,
                   steps, queue, tree>>

InitSort ==
    /\ \E s \in SortInputs : sorting = [op |-> "range", input |-> s]
    /\ data_ = <<>> /\ size_ = 0 /\ max_size_ = 0
    /\ last = NoOp /\ present = {} /\ distinct_run = TRUE /\ steps = 0
    /\ queue = NoQueue /\ tree = NoTree

SortRecursive ==
    LET n == Len(sorting.input)
    IN  Sorted("inplace_quicksort", 0, n,
               inplace_quicksort(sorting.input, 0, n), n, FALSE)

SortIterative ==
    LET n == Len(sorting.input)
        r == inplace_quicksort_iterative(sorting.input, 0, n)
    IN  Sorted("inplace_quicksort_iterative", 0, n, r.a, n, r.crashed)

Partition(begin_it, end_it) ==
    /\ sorting.op = "range"
    /\ begin_it < end_it /\ end_it <= Len(sorting.input)
    /\ LET p == partition(sorting.input, begin_it, end_it)
       IN  Sorted("partition", begin_it, end_it, p.a, p.ret, FALSE)

NextSort ==
    \/ SortRecursive
    \/ SortIterative
    \/ \E begin_it, end_it \in 0..MaxSortLen : Partition(begin_it, end_it)

SpecSort == InitSort /\ [][NextSort]_vars

(* ------------------------- priority_queue.h --------------------------- *)

(* A priority_queue<int> is a record [data, size_]: data is the array of     *)
(* basic_vector (data[i + 1] is data()[i], Len(data) is capacity_, the empty *)
(* array is nullptr) and size_ is priority_queue::size_.  basic_vector's own *)
(* size_ is a different member that stays 0.                                 *)

(* bounds: the capacity given to priority_queue(n), the largest element      *)
(* pushed and the number of calls in a run                                   *)
MaxQueueCapacity == 3
MaxQueueValue == 3
MaxQueueOps == 4

(* what the ints of a freshly allocated array may hold: less than every      *)
(* element pushed, or more                                                   *)
QueueGarbage == {0, MaxQueueValue + 1}

(* priority_queue() and priority_queue(n): allocate(n) constructs nothing *)
priority_queue(n, g) == [data |-> [i \in 1..n |-> g], size_ |-> 0]

(* basic_vector::expand: the elements 0..basic_vector::size_-1, that is      *)
(* none, are moved to the new array                                          *)
queue_expand(q, new_capacity, g) ==
    IF new_capacity <= Len(q.data)
    THEN q
    ELSE [q EXCEPT !.data = [i \in 1..new_capacity |-> g]]

check_expand(q, g) ==
    IF q.size_ + 1 >= Len(q.data)
    THEN queue_expand(q, 2 * Len(q.data), g)
    ELSE q

(* the while loop of percolate_up and the store after it.  At pos = 0 the    *)
(* parent is data[0] itself: the loop assigns data[0] to itself and tests    *)
(* the same condition again, for ever.                                       *)
RECURSIVE percolate_up_loop(_, _, _)
percolate_up_loop(data, pos, temp) ==
    LET parent == pos \div 2
    IN  IF temp < data[parent + 1]
        THEN IF pos = 0
             THEN [data |-> data, hung |-> TRUE]
             ELSE percolate_up_loop([data EXCEPT ![pos + 1] = data[parent + 1]],
                                    parent, temp)
        ELSE [data |-> [data EXCEPT ![pos + 1] = temp], hung |-> FALSE]

percolate_up(q) == percolate_up_loop(q.data, q.size_, q.data[q.size_ + 1])

(* push: data()[size_] = elem is a write at index size_; with capacity_ = 0  *)
(* expand(0) returns at once and the write goes through nullptr + 1          *)
push(q, elem, g) ==
    LET x == check_expand(q, g)
        n == q.size_ + 1
    IN  IF n >= Len(x.data)
        THEN [q |-> [x EXCEPT !.size_ = n], crashed |-> TRUE, hung |-> FALSE]
        ELSE LET y == [data |-> [x.data EXCEPT ![n + 1] = elem], size_ |-> n]
                 u == percolate_up(y)
             IN  [q |-> [y EXCEPT !.data = u.data],
                  crashed |-> FALSE, hung |-> u.hung]

RECURSIVE percolate_down_loop(_, _, _, _)
percolate_down_loop(data, size, pos, temp) ==
    IF 2 * pos <= size
    THEN LET c == 2 * pos
             child == IF c + 1 <= size /\ data[c + 1] > data[c + 2]
                      THEN c + 1
                      ELSE c
         IN  IF data[child + 1] < temp
             THEN percolate_down_loop([data EXCEPT ![pos + 1] = data[child + 1]],
                                      size, child, temp)
             ELSE [data EXCEPT ![pos + 1] = temp]
    ELSE [data EXCEPT ![pos + 1] = temp]

percolate_down(q) ==
    [data |-> percolate_down_loop(q.data, q.size_ - 1, 1, q.data[q.size_ + 1]),
     size_ |-> q.size_ - 1]

(* pop() noexcept: check_empty throws on the empty queue, which ends the     *)
(* program                                                                   *)
pop(q) ==
    IF q.size_ = 0
    THEN [q |-> q, crashed |-> TRUE]
    ELSE [q |-> percolate_down(q), crashed |-> FALSE]

(* top(): check_empty throws std::out_of_range on the empty queue *)
top(q) ==
    IF q.size_ = 0
    THEN [threw |-> TRUE, ret |-> 0]
    ELSE [threw |-> FALSE, ret |-> q.data[2]]

(* the queue object with the history of the run: the capacity it was built   *)
(* with, the elements pushed and not yet popped (value -> how many), and the *)
(* last call                                                                 *)
NoPending == [v \in 1..MaxQueueValue |-> 0]

InitQueue ==
    /\ \E n \in 0..MaxQueueCapacity, g \in QueueGarbage :
          /\ n = 0 => g = 0
          /\ queue = [op |-> "priority_queue", q |-> priority_queue(n, g),
                      capacity0 |-> n, pending |-> NoPending, calls |-> 0,
                      arg |-> 0, ret |-> 0, threw |-> FALSE,
                      crashed |-> FALSE, hung |-> FALSE, size0 |-> 0]
    /\ data_ = <<>> /\ size_ = 0 /\ max_size_ = 0
    /\ last = NoOp /\ present = {} /\ distinct_run = TRUE /\ steps = 0
    /\ sorting = NoSort /\ tree = NoTree

QueueRuns ==
    /\ queue.op # "none"
    /\ ~queue.crashed /\ ~queue.hung
    /\ queue.calls < MaxQueueOps
    /\ UNCHANGED <<data_, size_, max_size_, last, present, distinct_run,
                   steps, sorting, tree>>

Push(e) ==
    /\ QueueRuns
    /\ \E g \in QueueGarbage :
          LET r == push(queue.q, e, g)
          IN  queue' = [queue EXCEPT
                           !.op = "push", !.arg = e, !.q = r.q,
                           !.pending = [@ EXCEPT ![e] = @ + 1],
                           !.calls = @ + 1, !.threw = FALSE,
                           !.crashed = r.crashed, !.hung = r.hung,
                           !.size0 = queue.q.size_]

Pop ==
    /\ QueueRuns
    /\ LET r == pop(queue.q)
           m == IF queue.q.size_ = 0 THEN 0 ELSE queue.q.data[2]
       IN  queue' = [queue EXCEPT
                        !.op = "pop", !.arg = 0, !.q = r.q, !.ret = m,
                        !.pending = IF m \in DOMAIN @ /\ @[m] > 0
                                    THEN [@ EXCEPT ![m] = @ - 1]
                                    ELSE @,
                        !.calls = @ + 1, !.threw = r.crashed,
                        !.crashed = r.crashed,
                        !.size0 = queue.q.size_]

Top ==
    /\ QueueRuns
    /\ queue.op # "top"
    /\ LET r == top(queue.q)
       IN  queue' = [queue EXCEPT
                        !.op = "top", !.arg = 0, !.ret = r.ret,
                        !.calls = @ + 1, !.threw = r.threw,
                        !.size0 = queue.q.size_]

NextQueue ==
    \/ \E e \in 1..MaxQueueValue : Push(e)
    \/ Pop
    \/ Top

SpecQueue == InitQueue /\ [][NextQueue]_vars

(* ---------------------------- avl_tree.h ------------------------------ *)

(* bounds: the elements are 1..MaxTreeValue, a run makes at most MaxTreeOps  *)
(* calls, and MaxTreeNodes nodes can be allocated at a time                  *)
MaxTreeValue == 5
MaxTreeOps == 6
MaxTreeNodes == 5

ALLOWED_IMBALANCE == 1

(* a Node*: 0 is nullptr, the others name the cells the allocator hands out *)
NodeIds == 1..MaxTreeNodes

(* a cell that holds no Node (never allocated, or deallocated) *)
FreeNode ==
    [element_ |-> 0, parent_ |-> 0, left_ |-> 0, right_ |-> 0, height_ |-> 0,
     allocated |-> FALSE]

(* Node(elem, par, lf_child, rg_child), height_ {0} *)
Node(elem, par, lf_child, rg_child) ==
    [element_ |-> elem, parent_ |-> par, left_ |-> lf_child,
     right_ |-> rg_child, height_ |-> 0, allocated |-> TRUE]

(* avl_tree(): root_(nullptr), size_ {}; crashed: a call dereferenced        *)
(* nullptr                                                                   *)
avl_tree ==
    [root_ |-> 0, size_ |-> 0, nodes |-> [n \in NodeIds |-> FreeNode],
     crashed |-> FALSE]

max(a, b) == IF a < b THEN b ELSE a

abs(a) == IF a < 0 THEN -a ELSE a

height(t, node) == IF node = 0 THEN -1 ELSE t.nodes[node].height_

calc_height(t, node) ==
    max(height(t, t.nodes[node].left_), height(t, t.nodes[node].right_)) + 1

is_left(t, node) ==
    /\ t.nodes[node].parent_ # 0
    /\ t.nodes[t.nodes[node].parent_].left_ = node

is_right(t, node) ==
    /\ t.nodes[node].parent_ # 0
    /\ t.nodes[t.nodes[node].parent_].right_ = node

(* allocate_node: a cell that holds no Node *)
allocate_node(t) == Min({n \in NodeIds : ~t.nodes[n].allocated})

(* deallocate_node: the left subtree, the right subtree, then the node *)
RECURSIVE deallocate_node(_, _)
deallocate_node(t, node) ==
    IF node = 0 \/ ~t.nodes[node].allocated
    THEN t
    ELSE LET a == IF t.nodes[node].left_ # 0
                  THEN deallocate_node(t, t.nodes[node].left_)
                  ELSE t
             b == IF t.nodes[node].right_ # 0
                  THEN deallocate_node(a, t.nodes[node].right_)
                  ELSE a
         IN  [b EXCEPT !.nodes[node] = FreeNode]

RECURSIVE find_min(_, _)
find_min(t, node) ==
    IF node = 0
    THEN 0
    ELSE IF t.nodes[node].left_ # 0
    THEN find_min(t, t.nodes[node].left_)
    ELSE node

RECURSIVE find_node_from(_, _, _)
find_node_from(t, elem, node) ==
    IF elem > t.nodes[node].element_ /\ t.nodes[node].right_ # 0
    THEN find_node_from(t, elem, t.nodes[node].right_)
    ELSE IF elem < t.nodes[node].element_ /\ t.nodes[node].left_ # 0
    THEN find_node_from(t, elem, t.nodes[node].left_)
    ELSE node

find_node(t, elem) ==
    IF t.root_ = 0 THEN 0 ELSE find_node_from(t, elem, t.root_)

(* rotate_left: the left child of node takes the place of node *)
rotate_left(t, node) ==
    IF t.crashed
    THEN t
    ELSE IF node = 0
    THEN [t EXCEPT !.crashed = TRUE]
    ELSE IF t.nodes[node].left_ = 0
    THEN [t EXCEPT !.crashed = TRUE]
    ELSE LET left == t.nodes[node].left_
             left_rg == t.nodes[left].right_
             par == t.nodes[node].parent_
             a == IF is_left(t, node)
                  THEN [t EXCEPT !.nodes[par].left_ = left]
                  ELSE IF is_right(t, node)
                  THEN [t EXCEPT !.nodes[par].right_ = left]
                  ELSE [t EXCEPT !.root_ = left]
             b == [a EXCEPT !.nodes[left].parent_ = par,
                            !.nodes[left].right_ = node]
             c == IF left_rg # 0
                  THEN [b EXCEPT !.nodes[left_rg].parent_ = node]
                  ELSE b
             d == [c EXCEPT !.nodes[node].parent_ = left,
                            !.nodes[node].left_ = left_rg]
             e == [d EXCEPT !.nodes[node].height_ = calc_height(d, node)]
         IN  [e EXCEPT !.nodes[left].height_ = calc_height(e, left)]

(* rotate_right: the right child of node takes the place of node *)
rotate_right(t, node) ==
    IF t.crashed
    THEN t
    ELSE IF node = 0
    THEN [t EXCEPT !.crashed = TRUE]
    ELSE IF t.nodes[node].right_ = 0
    THEN [t EXCEPT !.crashed = TRUE]
    ELSE LET right == t.nodes[node].right_
             right_lf == t.nodes[right].left_
             par == t.nodes[node].parent_
             a == IF is_left(t, node)
                  THEN [t EXCEPT !.nodes[par].left_ = right]
                  ELSE IF is_right(t, node)
                  THEN [t EXCEPT !.nodes[par].right_ = right]
                  ELSE [t EXCEPT !.root_ = right]
             b == [a EXCEPT !.nodes[right].parent_ = par,
                            !.nodes[right].left_ = node]
             c == IF right_lf # 0
                  THEN [b EXCEPT !.nodes[right_lf].parent_ = node]
                  ELSE b
             d == [c EXCEPT !.nodes[node].parent_ = right,
                            !.nodes[node].right_ = right_lf]
             e == [d EXCEPT !.nodes[node].height_ = calc_height(d, node)]
         IN  [e EXCEPT !.nodes[right].height_ = calc_height(e, right)]

double_rotate_left(t, node) ==
    rotate_left(rotate_right(t, t.nodes[node].left_), node)

double_rotate_right(t, node) ==
    rotate_right(rotate_left(t, t.nodes[node].right_), node)

(* update: from node up to the root, store the height of a balanced node;    *)
(* rotate at the first node that is out of balance and stop there            *)
RECURSIVE update(_, _)
update(t, node) ==
    LET lf == t.nodes[node].left_
        rg == t.nodes[node].right_
    IN  IF abs(height(t, lf) - height(t, rg)) > ALLOWED_IMBALANCE
        THEN IF height(t, lf) > height(t, rg)
             THEN IF height(t, t.nodes[lf].left_)
                        > height(t, t.nodes[lf].right_)
                  THEN rotate_left(t, node)
                  ELSE double_rotate_left(t, node)
             ELSE IF height(t, t.nodes[rg].right_)
                        > height(t, t.nodes[rg].left_)
                  THEN rotate_right(t, node)
                  ELSE double_rotate_right(t, node)
        ELSE LET a == [t EXCEPT !.nodes[node].height_ = calc_height(t, node)]
             IN  IF t.nodes[node].parent_ # 0
                 THEN update(a, t.nodes[node].parent_)
                 ELSE a

(* insert: [t, ret], ret the node of the returned iterator *)
avl_insert(t, elem) ==
    IF t.root_ = 0
    THEN LET res == allocate_node(t)
         IN  [t |-> [t EXCEPT !.nodes[res] = Node(elem, 0, 0, 0),
                              !.root_ = res,
                              !.size_ = @ + 1],
              ret |-> res]
    ELSE LET node == find_node(t, elem)
         IN  IF elem = t.nodes[node].element_
             THEN [t |-> t, ret |-> node]
             ELSE LET res == allocate_node(t)
                      a == [t EXCEPT !.nodes[res] = Node(elem, node, 0, 0)]
                      b == IF elem > t.nodes[node].element_
                           THEN [a EXCEPT !.nodes[node].right_ = res]
                           ELSE [a EXCEPT !.nodes[node].left_ = res]
                      c == update(b, node)
                  IN  [t |-> [c EXCEPT !.size_ = @ + 1], ret |-> res]

(* remove_node of a node with two children: the element of the minimum of    *)
(* the right subtree moves into node, and that minimum is unlinked through   *)
(* the left_ of its parent                                                   *)
remove_node_two(t, node) ==
    LET sub == find_min(t, t.nodes[node].right_)
        sub_par == t.nodes[sub].parent_
        sub_rg == t.nodes[sub].right_
        a == [t EXCEPT !.nodes[node].element_ = t.nodes[sub].element_]
        b == IF sub_rg # 0
             THEN [a EXCEPT !.nodes[sub_rg].parent_ = sub_par,
                            !.nodes[sub_par].left_ = sub_rg,
                            !.nodes[sub].right_ = 0]
             ELSE [a EXCEPT !.nodes[sub_par].left_ = 0]
    IN  deallocate_node(update(b, sub_par), sub)

(* remove_node of a node with one child: the child takes its place *)
remove_node_one(t, node, child) ==
    LET par == t.nodes[node].parent_
        a == [t EXCEPT !.nodes[child].parent_ = par]
        b == IF par = 0
             THEN [a EXCEPT !.root_ = child]
             ELSE IF is_left(a, node)
             THEN [a EXCEPT !.nodes[par].left_ = child]
             ELSE [a EXCEPT !.nodes[par].right_ = child]
        c == update(b, child)
        d == IF t.nodes[node].left_ = child
             THEN [c EXCEPT !.nodes[node].left_ = 0]
             ELSE [c EXCEPT !.nodes[node].right_ = 0]
    IN  deallocate_node(d, node)

(* remove_node of a leaf: it is unlinked, and update is not called *)
remove_node_leaf(t, node) ==
    LET par == t.nodes[node].parent_
        a == IF par = 0
             THEN [t EXCEPT !.root_ = 0]
             ELSE IF is_left(t, node)
             THEN [t EXCEPT !.nodes[par].left_ = 0]
             ELSE [t EXCEPT !.nodes[par].right_ = 0]
    IN  deallocate_node(a, node)

remove_node(t, node) ==
    IF node = 0
    THEN t
    ELSE IF t.nodes[node].right_ # 0 /\ t.nodes[node].left_ # 0
    THEN remove_node_two(t, node)
    ELSE IF t.nodes[node].left_ # 0
    THEN remove_node_one(t, node, t.nodes[node].left_)
    ELSE IF t.nodes[node].right_ # 0
    THEN remove_node_one(t, node, t.nodes[node].right_)
    ELSE remove_node_leaf(t, node)

(* remove(const T&): [t, ret] *)
avl_remove(t, elem) ==
    IF t.root_ = 0
    THEN [t |-> t, ret |-> 0]
    ELSE LET node == find_node(t, elem)
         IN  IF t.nodes[node].element_ = elem
             THEN [t |-> [remove_node(t, node) EXCEPT !.size_ = @ - 1],
                   ret |-> 1]
             ELSE [t |-> t, ret |-> 0]

(* a pointer of the tree refers to a deallocated node *)
Dangling(t) ==
    \/ t.root_ # 0 /\ ~t.nodes[t.root_].allocated
    \/ \E n \in NodeIds :
          /\ t.nodes[n].allocated
          /\ \E m \in {t.nodes[n].parent_, t.nodes[n].left_, t.nodes[n].right_} :
                m # 0 /\ ~t.nodes[m].allocated

(* begin(): the iterator on find_min(root_) *)
avl_begin(t) == find_min(t, t.root_)

(* operator++ without a right child: up while the node is a right child *)
RECURSIVE climb_right(_, _, _)
climb_right(t, node, tmp) ==
    IF tmp # 0 /\ is_right(t, node)
    THEN climb_right(t, tmp, t.nodes[tmp].parent_)
    ELSE tmp

(* avl_iterator::operator++ *)
avl_iter_inc(t, node) ==
    IF t.nodes[node].right_ # 0
    THEN find_min(t, t.nodes[node].right_)
    ELSE climb_right(t, node, t.nodes[node].parent_)

(* for (itr = begin(); itr; ++itr): the elements the loop yields, at most n  *)
(* of them                                                                   *)
RECURSIVE traversal(_, _, _)
traversal(t, node, n) ==
    IF node = 0 \/ n = 0
    THEN <<>>
    ELSE <<t.nodes[node].element_>>
            \o traversal(t, avl_iter_inc(t, node), n - 1)

(* tree: the avl_tree of the run, its last call, and the elements inserted   *)
(* and not removed since                                                     *)
InitTree ==
    /\ tree = [op |-> "avl_tree", arg |-> 0, ret |-> 0, t |-> avl_tree,
               elems |-> {}, calls |-> 0]
    /\ data_ = <<>> /\ size_ = 0 /\ max_size_ = 0
    /\ last = NoOp /\ present = {} /\ distinct_run = TRUE /\ steps = 0
    /\ sorting = NoSort /\ queue = NoQueue

(* a call on a tree with a pointer to a deallocated node reads that node:    *)
(* the runs end before it                                                    *)
TreeRuns ==
    /\ tree.op # "none"
    /\ ~tree.t.crashed /\ ~Dangling(tree.t)
    /\ tree.calls < MaxTreeOps
    /\ UNCHANGED <<data_, size_, max_size_, last, present, distinct_run,
                   steps, sorting, queue>>

TreeInsert(e) ==
    /\ TreeRuns
    /\ \E n \in NodeIds : ~tree.t.nodes[n].allocated
    /\ LET r == avl_insert(tree.t, e)
       IN  tree' = [op |-> "insert", arg |-> e, ret |-> r.ret, t |-> r.t,
                    elems |-> tree.elems \cup {e}, calls |-> tree.calls + 1]

TreeRemove(e) ==
    /\ TreeRuns
    /\ LET r == avl_remove(tree.t, e)
       IN  tree' = [op |-> "remove", arg |-> e, ret |-> r.ret, t |-> r.t,
                    elems |-> tree.elems \ {e}, calls |-> tree.calls + 1]

NextTree ==
    \/ \E e \in 1..MaxTreeValue : TreeInsert(e)
    \/ \E e \in 1..MaxTreeValue : TreeRemove(e)

SpecTree == InitTree /\ [][NextTree]_vars

(* ------------------------------ claims -------------------------------- *)

Slots == 0..(max_size_ - 1)

(* the elements held by occupied slots of t, and the slots holding e *)
Live(t) == {t.data[p].elem : p \in {q \in 0..(t.max - 1) : t.data[q].occupied}}

SlotsOf(t, e) == {p \in 0..(t.max - 1) : t.data[p].occupied /\ t.data[p].elem = e}

(* C1: Hopscotch invariant.  Every occupied slot p holds an element whose    *)
(* home h is at forward distance (p - h) mod capacity < MAX_DIST, and that   *)
(* bit is set in the hop bitmap of slot h.                                   *)
C1_HopscotchInvariant ==
    \A p \in Slots :
        data_[p].occupied =>
            LET h == hash_value(T, data_[p].elem)
                d == (p - h) % max_size_
            IN  d < MAX_DIST /\ get_hop(data_[h], d)

(* C2: after a run of inserts of pairwise distinct elements into a fresh     *)
(* table, each entered with size < capacity * 0.8, the last insert returned  *)
(* true, size() is the number of elements inserted and contains(e) is true   *)
(* for every one of them.                                                    *)
C2_DistinctInsertsContained ==
    distinct_run =>
        /\ last.ret /\ ~last.threw
        /\ size_ = Cardinality(present)
        /\ \A e \in present : contains(T, e)

(* C3: insert(e) of an element that is in the table returns false and leaves *)
(* size(), max_size() and every slot unchanged.                              *)
C3_DuplicateInsertRejected ==
    [][(last'.op = "insert" /\ last'.arg \in present)
          => /\ ~last'.ret /\ ~last'.threw
             /\ data_' = data_ /\ size_' = size_ /\ max_size_' = max_size_]_vars

(* C4: remove(e) of an element that is in the table returns true, decreases  *)
(* size() by exactly 1 and leaves the slot that held e unoccupied.           *)
C4_RemovePresent ==
    [][(last'.op = "remove" /\ last'.arg \in present)
          => /\ last'.ret
             /\ size_' = size_ - 1
             /\ \A p \in SlotsOf(T, last'.arg) : ~data_'[p].occupied]_vars

(* C5: remove(e) of an element that is not in the table (never inserted, or  *)
(* already removed) returns false and leaves size() and every slot unchanged.*)
C5_RemoveAbsent ==
    [][(last'.op = "remove" /\ last'.arg \notin present)
          => /\ ~last'.ret
             /\ data_' = data_ /\ size_' = size_]_vars

(* C6: round trip.  insert(e) of an element not in the table followed by     *)
(* remove(e) leaves contains(e) false and size() as it was before the two    *)
(* calls.                                                                    *)
C6_InsertRemoveRoundTrip ==
    [][(/\ last.op = "insert" /\ ~last.had /\ ~last.threw
        /\ last'.op = "remove" /\ last'.arg = last.arg)
          => /\ ~contains([data |-> data_', size |-> size_', max |-> max_size_'],
                          last.arg)
             /\ size_' = last.size0]_vars

(* C7: resize preserves membership.  In a state where the next insert        *)
(* expands, expand() completes and leaves every element of an occupied slot  *)
(* in exactly one occupied slot of the new array, contained, with size()     *)
(* the number of those elements.                                             *)
C7_ExpandPreservesMembership ==
    (NeedsExpand(T) /\ get_next_size_(max_size_) <= MaxCapacity) =>
        LET x == expand(T, EmptyCell)
        IN  /\ ~x.threw
            /\ \A e \in Live(T) :
                  Cardinality(SlotsOf(x.t, e)) = 1 /\ contains(x.t, e)
            /\ x.t.size = Cardinality(Live(T))

(* C8: an insert whose nearest empty slot is at distance >= MAX_DIST from    *)
(* the home and that succeeds through displacement returns true, grows       *)
(* size() by exactly 1 and leaves e and every element that was contained     *)
(* before the call contained.                                                *)
C8_DisplacementKeepsContained ==
    [][(/\ last'.op = "insert" /\ last'.ret
        /\ ~contains(T, last'.arg) /\ ~NeedsExpand(T)
        /\ Dist(T, hash_value(T, last'.arg), find_pos(T, last'.arg)) >= MAX_DIST)
          => LET t1 == [data |-> data_', size |-> size_', max |-> max_size_']
             IN  /\ size_' = size_ + 1
                 /\ contains(t1, last'.arg)
                 /\ \A x \in present : contains(T, x) => contains(t1, x)]_vars

(* C9: size() equals the number of slots whose occupied flag is true.        *)
C9_SizeCountsOccupied ==
    size_ = Cardinality({p \in Slots : data_[p].occupied})

(* C10: no stale hop bits.  If bit i is set in the hop bitmap of slot h,     *)
(* slot (h + i) mod capacity is occupied and holds an element whose home is  *)
(* h.                                                                        *)
C10_NoStaleHopBits ==
    \A h \in Slots : \A i \in data_[h].hop_info :
        LET p == (h + i) % max_size_
        IN  data_[p].occupied /\ hash_value(T, data_[p].elem) = h

(* C11: iterating from begin() to end() with ++ visits exactly size()        *)
(* elements, every occupied slot once and no unoccupied slot, in ascending   *)
(* index order; begin() is on the first occupied slot, or is end() when no   *)
(* slot is occupied.                                                         *)
C11_IterationVisitsLive ==
    LET v == visits(T, begin(T))
        occ == {p \in Slots : data_[p].occupied}
    IN  /\ Len(v) = size_
        /\ {v[k] : k \in 1..Len(v)} = occ
        /\ \A k \in 1..(Len(v) - 1) : v[k] < v[k + 1]
        /\ begin(T) = Min(occ \cup {end(T)})

(* C12 as stated: an insert of an element that is not in the table expands   *)
(* if and only if 5 * size >= 4 * capacity on entry (for capacity 101: from  *)
(* size 81 on).                                                              *)
C12_ExpandIffExactLoad ==
    [][(/\ last'.op = "insert" /\ last'.arg \notin present
        /\ ~contains(T, last'.arg) /\ size_ >= 0)
          => ((max_size_' # max_size_) <=> (5 * size_ >= 4 * max_size_))]_vars

(* C12: insert(e) entered with contains(e) false expands if and only if      *)
(* size >= floor(capacity * 0.8) as size_t values on entry, that is size is  *)
(* beyond 2^63 or 5 * (size + 1) > 4 * capacity; an insert entered with      *)
(* contains(e) true never expands.                                           *)
C12_ExpandIffTruncatedLoad ==
    [][last'.op = "insert"
          => ((max_size_' # max_size_)
                <=> (/\ ~contains(T, last'.arg)
                     /\ (size_ < 0 \/ 5 * (size_ + 1) > 4 * max_size_)))]_vars

(* the insert entered with size 80 at capacity 101 expanded *)
C12_ExpandedAtEighty ==
    /\ last.op = "insert" /\ ~last.had /\ last.size0 = 80
    /\ max_size_ = get_next_size_(DEFAULT_SIZE)

(* primality and the smallest prime >= n, by trial division over all         *)
(* candidates                                                                *)
IsPrimeRef(p) == p > 1 /\ \A d \in 2..(p - 1) : p % d # 0

SmallestPrimeGE(n) == Min({p \in n..(2 * n + 2) : IsPrimeRef(p)})

(* C13: an insert that expands sets the capacity to the smallest prime       *)
(* >= 2 * old capacity, which is greater than the old capacity; from         *)
(* capacity 101 the new capacity is 211.                                     *)
C13_ExpandToNextPrime ==
    [][(last'.op = "insert" /\ ~contains(T, last'.arg) /\ NeedsExpand(T))
          => /\ max_size_' = SmallestPrimeGE(2 * max_size_)
             /\ max_size_' > max_size_
             /\ max_size_ = 101 => max_size_' = 211]_vars

(* an insert into a table of capacity 131 has expanded it to 263 *)
C13_ExpandedFrom131 ==
    /\ last.op = "insert" /\ last.ret
    /\ last.size0 = LoadLimit(131) /\ max_size_ = 263

C15_CapacityPrime ==
    /\ IsPrimeRef(max_size_)
    /\ \A g \in Garbage :
          LET c == hashing_copy(T, g)
          IN  ~c.threw => IsPrimeRef(c.t.max)

(* a table that was cleared after an insert had expanded it *)
C15_ClearedAfterExpand ==
    /\ last.op = "clear" /\ steps = MaxCapOps
    /\ last.size0 > LoadLimit(DEFAULT_SIZE) + 1
    /\ max_size_ = DEFAULT_SIZE

(* the tables insert(e) can leave when its displacement loop, after the      *)
(* expand of an insert entered at the load limit, ends with move_elem        *)
(* returning the sentinel                                                    *)
Exhausted(t, e) ==
    LET entered(g) == IF NeedsExpand(t)
                      THEN expand(t, g)
                      ELSE [t |-> t, ret |-> TRUE, threw |-> FALSE,
                            oob |-> FALSE]
        loop(g) == LET x == entered(g).t
                   IN  displace(x, hash_value(x, e), find_pos(x, e), g)
    IN  {loop(g).t : g \in {k \in Garbage : /\ ~entered(k).threw
                                             /\ loop(k).pos = loop(k).t.max}}

(* C16: displacement exhaustion.  When move_elem returns the sentinel during *)
(* insert(e), insert returns false without an exception, size() is not       *)
(* changed, e is not contained afterwards, every element that one occupied   *)
(* slot held before the call is held by one occupied slot after it, and      *)
(* every such element that was contained is still contained.                 *)
C16_ExhaustionFailsCleanly ==
    [][(LET t1 == [data |-> data_', size |-> size_', max |-> max_size_']
        IN  (/\ last'.op = "insert"
             /\ ~contains(T, last'.arg)
             /\ t1 \in Exhausted(T, last'.arg))
              => /\ ~last'.ret /\ ~last'.threw
                 /\ size_' = size_
                 /\ ~contains(t1, last'.arg)
                 /\ \A x \in Live(T) :
                       /\ Cardinality(SlotsOf(T, x)) = 1
                             => Cardinality(SlotsOf(t1, x)) = 1
                       /\ contains(T, x) => contains(t1, x))]_vars

(* C17: every slot index that a call of insert (find_pos, move_elem and the  *)
(* expand of the call included), remove or contains reads or writes lies in  *)
(* 0..capacity-1.                                                            *)
C17_IndicesInRange ==
    last.op \in {"insert", "remove"} => ~last.oob

(* C18: wrap-safe placement.  An insert of an element that is not contained, *)
(* entered below the load limit, whose probe ends on a slot pos before its   *)
(* home h with (pos - h) mod capacity < MAX_DIST, returns true without an    *)
(* exception, stores the element in pos and records the hop offset           *)
(* (pos - h) mod capacity (in the bitmap of the home or of the slot).        *)
C18_WrapSafePlacement ==
    [][(LET e == last'.arg
            h == hash_value(T, e)
            pos == find_pos(T, e)
            d == (pos - h) % max_size_
        IN  (/\ last'.op = "insert"
             /\ ~contains(T, e) /\ ~NeedsExpand(T)
             /\ pos < h /\ d < MAX_DIST)
              => /\ last'.ret /\ ~last'.threw
                 /\ data_'[pos].occupied /\ data_'[pos].elem = e
                 /\ get_hop(data_'[h], d) \/ get_hop(data_'[pos], d))]_vars

(* C19: a copy of the table, by the copy constructor or by copy assignment   *)
(* to another table, is built without an exception, has the size() of the    *)
(* source and contains exactly the elements the source contains;             *)
(* self-assignment leaves the table as it is.                                *)
C19_CopyEquivalent ==
    \A g \in Garbage :
        LET made == hashing_copy(T, g)
            assigned == copy_assign(hashing_default, T, FALSE, g)
            same(c) == /\ ~c.threw
                       /\ c.t.size = size_
                       /\ \A e \in Elems \cup present \cup Live(T) :
                             contains(c.t, e) <=> contains(T, e)
        IN  /\ same(made)
            /\ same(assigned)
            /\ copy_assign(T, T, TRUE, g).t = T

(* C20: moving the table, by the move constructor or by move assignment to   *)
(* another table, gives the destination the slot array, size and capacity of *)
(* the source and leaves the source with size() = 0 and max_size() = 0.      *)
C20_MoveEmptiesSource ==
    /\ LET m == hashing_move(T)
       IN  m.dst = T /\ m.src.size = 0 /\ m.src.max = 0
    /\ \A a \in move_assign(hashing_default, T) :
          a.returned /\ a.dst = T /\ a.src.size = 0 /\ a.src.max = 0

(* C21 as stated: remove, clear, an insert that returns false and an insert  *)
(* entered below the load limit leave max_size() unchanged.                  *)
C21_OnlyExpandChangesCapacity ==
    [][(\/ last'.op \in {"remove", "clear"}
        \/ last'.op = "insert" /\ (~last'.ret \/ ~NeedsExpand(T)))
          => max_size_' = max_size_]_vars

(* C21: remove leaves max_size() unchanged, and so does an insert entered    *)
(* with contains(e) true or below the load limit, whatever it returns;       *)
(* clear sets max_size() to DEFAULT_SIZE; an insert entered at the load      *)
(* limit with contains(e) false changes max_size(), also when it returns     *)
(* false.                                                                    *)
C21_CapacityFrame ==
    [][/\ last'.op = "remove" => max_size_' = max_size_
       /\ last'.op = "clear" => max_size_' = DEFAULT_SIZE
       /\ last'.op = "insert" =>
             IF contains(T, last'.arg) \/ ~NeedsExpand(T)
             THEN max_size_' = max_size_
             ELSE max_size_' # max_size_]_vars

(* an insert entered at the load limit has expanded the table and returned   *)
(* false                                                                     *)
C21_FailedInsertExpanded ==
    /\ last.op = "insert" /\ ~last.ret /\ ~last.threw /\ ~last.had
    /\ last.size0 = LoadLimit(DEFAULT_SIZE)
    /\ max_size_ = get_next_size_(DEFAULT_SIZE)

(* C22: when the allocation of the new array fails during the expand of an   *)
(* insert, the exception leaves the call and the slot array, size() and      *)
(* max_size() are as before it, so every element that was contained is       *)
(* still contained.                                                          *)
C22_FailedAllocationKeepsTable ==
    [][last'.op = "insert_bad_alloc"
          => /\ last'.threw /\ ~last'.ret
             /\ size_' = size_
             /\ max_size_' = max_size_
             /\ data_' = data_
             /\ \A x \in present :
                   contains(T, x)
                     => contains([data |-> data_', size |-> size_',
                                  max |-> max_size_'], x)]_vars

(* the allocation failed in the insert entered with size 80 at capacity 101 *)
C22_AllocationFailedAtLimit ==
    /\ last.op = "insert_bad_alloc" /\ last.threw
    /\ last.size0 = LoadLimit(DEFAULT_SIZE) /\ size_ = last.size0
    /\ max_size_ = DEFAULT_SIZE

(* C23: after clear() size() is 0, no slot is occupied, no hop bit is set,   *)
(* contains(e) is false for every e, and the table is the one hashing()      *)
(* builds, so that every insert into it does what it does on a fresh table:  *)
(* it returns true, and the element is then contained in a table of size 1.  *)
C23_ClearedIsFresh ==
    last.op = "clear" =>
        /\ size_ = 0
        /\ \A p \in Slots : ~data_[p].occupied /\ data_[p].hop_info = {}
        /\ \A e \in Elems \cup ClusterProbes : ~contains(T, e)
        /\ T = hashing_default
        /\ \A e \in Elems \cup ClusterProbes :
              LET r == insert(T, e, EmptyCell)
              IN  /\ r = insert(hashing_default, e, EmptyCell)
                  /\ r.ret /\ ~r.threw /\ ~r.oob
                  /\ r.t.size = 1 /\ contains(r.t, e)

(* clear() was called on a table holding a full neighbourhood *)
C23_ClearedFullNeighbourhood ==
    /\ last.op = "clear" /\ steps = 1
    /\ last.size0 >= 2 * MAX_DIST - 2

(* how often v occurs in a *)
Occurrences(a, v) == Cardinality({i \in 1..Len(a) : a[i] = v})

IsPermutation(a, b) ==
    /\ Len(a) = Len(b)
    /\ \A v \in 0..(MaxSortValue + 1) : Occurrences(a, v) = Occurrences(b, v)

IsAscending(a) == \A i, j \in 1..Len(a) : i < j => a[i] <= a[j]

(* C24: inplace_quicksort and inplace_quicksort_iterative each return and    *)
(* leave the range the ascending permutation of its original contents;       *)
(* partition returns the position the pivot (the first element) ends at,     *)
(* with no greater element before it and no smaller one after it inside      *)
(* [begin, end), and the range a permutation of what it was.                 *)
C24_SortsAndPartitions ==
    /\ sorting.op \in {"inplace_quicksort", "inplace_quicksort_iterative"}
          => /\ ~sorting.crashed
             /\ IsAscending(sorting.a)
             /\ IsPermutation(sorting.a, sorting.input)
    /\ sorting.op = "partition"
          => LET pivot == sorting.input[sorting.begin + 1]
                 q == sorting.ret
             IN  /\ sorting.begin <= q /\ q < sorting.end
                 /\ sorting.a[q + 1] = pivot
                 /\ \A i \in sorting.begin..(q - 1) : sorting.a[i + 1] <= pivot
                 /\ \A i \in (q + 1)..(sorting.end - 1) :
                       sorting.a[i + 1] >= pivot
                 /\ IsPermutation(sorting.a, sorting.input)
                 /\ \A i \in 1..Len(sorting.input) :
                       (i <= sorting.begin \/ i > sorting.end)
                           => sorting.a[i] = sorting.input[i]

(* the number of elements pushed and not yet popped, and the least of them *)
RECURSIVE PendingCount(_, _)
PendingCount(pending, v) ==
    IF v = 0 THEN 0 ELSE pending[v] + PendingCount(pending, v - 1)

PendingMin(pending) == Min({v \in DOMAIN pending : pending[v] > 0})

(* C25: on a default-constructed priority_queue every push returns, writing  *)
(* inside the allocated array, and after every push and every pop of a       *)
(* non-empty queue size() is the number of elements pushed and not yet       *)
(* popped and top() is the least of them.                                    *)
C25_MinHeap ==
    (queue.op \in {"push", "pop"} /\ queue.capacity0 = 0
        /\ (queue.op = "pop" => queue.size0 > 0))
      => /\ ~queue.crashed /\ ~queue.hung
         /\ queue.q.size_ = PendingCount(queue.pending, MaxQueueValue)
         /\ queue.q.size_ > 0
               => /\ ~top(queue.q).threw
                  /\ top(queue.q).ret = PendingMin(queue.pending)

(* the table t holds exactly the elements of the set S *)
Agrees(t, S) ==
    /\ t.size = Cardinality(S)
    /\ \A e \in Elems \cup ClusterProbes : contains(t, e) <=> e \in S

(* C26: a call made on a table that agrees with the abstract set S returns   *)
(* what the abstract operation returns (insert: e was not in S, remove: e    *)
(* was in S) and leaves a table that agrees with the set the abstract        *)
(* operation leaves.                                                         *)
C26_RefinesSet ==
    [][Agrees(T, present) =>
          LET e == last'.arg
              t1 == [data |-> data_', size |-> size_', max |-> max_size_']
          IN  /\ ~last'.threw
              /\ last'.op = "insert" =>
                    /\ last'.ret = (e \notin present)
                    /\ Agrees(t1, present \cup {e})
              /\ last'.op = "remove" =>
                    /\ last'.ret = (e \in present)
                    /\ Agrees(t1, present \ {e})
              /\ last'.op = "clear" => Agrees(t1, {})]_vars

(* the first move_elem call of insert(e) on t: insert calls move_elem(pos)   *)
(* with pos = find_pos(e) when contains(e) is false, no expand is due and    *)
(* pos is MAX_DIST or more slots after the home of e                         *)
CallsMoveElem(t, e) ==
    /\ ~contains(t, e) /\ ~NeedsExpand(t)
    /\ FindPosTerminates(t, e)
    /\ Dist(t, hash_value(t, e), find_pos(t, e)) >= MAX_DIST

(* what C27 says of one call m == move_elem(pos) on t made for an element    *)
(* of home hash_val                                                          *)
MoveElemResult(t, hash_val, pos, m) ==
    LET q == m.pos
    IN  q # t.max =>
           /\ \E k \in 1..(MAX_DIST - 1) : q = (pos + t.max - k) % t.max
           /\ t.data[q].occupied
           /\ ~m.t.data[q].occupied
           /\ m.t.data[pos].occupied
           /\ m.t.data[pos].elem = t.data[q].elem
           /\ Dist(t, hash_val, q) < Dist(t, hash_val, pos)

(* MoveElemResult of every call of the displacement loop of insert *)
RECURSIVE MoveElemChain(_, _, _, _)
MoveElemChain(t, hash_val, pos, g) ==
    Dist(t, hash_val, pos) >= MAX_DIST =>
        LET m == move_elem(t, pos, g)
        IN  /\ MoveElemResult(t, hash_val, pos, m)
            /\ m.pos # t.max => MoveElemChain(m.t, hash_val, m.pos, g)

(* C27: when move_elem(pos) returns q other than the sentinel, q is one of   *)
(* the MAX_DIST - 1 slots before pos (modulo the capacity), slot q was       *)
(* occupied before the call and is unoccupied after it, slot pos is then     *)
(* occupied by the element q held, and q is nearer to the home of the        *)
(* element being inserted than pos; for every call an insert can make.       *)
C27_MoveElemResult ==
    \A e \in Elems \cup ClusterProbes : \A g \in Garbage :
        CallsMoveElem(T, e) =>
            MoveElemChain(T, hash_value(T, e), find_pos(T, e), g)

(* an insert is about to call move_elem on a window that wraps round the     *)
(* end of the array, and the call relocates an element                       *)
C27_RelocatesAcrossTheEnd ==
    \E e \in Elems \cup ClusterProbes :
        /\ CallsMoveElem(T, e)
        /\ find_pos(T, e) < MAX_DIST - 1
        /\ \E g \in Garbage : move_elem(T, find_pos(T, e), g).pos # max_size_

(* C28: when the first move_elem call of an insert relocates x from slot q   *)
(* to slot pos, pos is less than MAX_DIST slots after the home of x, the     *)
(* stored bitmap of that home has the bit of the old offset cleared and the  *)
(* bit of the new offset set, and no slot other than q, pos and the home of  *)
(* x changes.                                                                *)
C28_MoveElemBitmap ==
    \A e \in Elems \cup ClusterProbes : \A g \in Garbage :
        CallsMoveElem(T, e) =>
            LET pos == find_pos(T, e)
                m == move_elem(T, pos, g)
                q == m.pos
            IN  q # max_size_ =>
                   LET x == data_[q].elem
                       home == hash_value(T, x)
                   IN  /\ Dist(T, home, pos) < MAX_DIST
                       /\ ~get_hop(m.t.data[home], Dist(T, home, q))
                       /\ get_hop(m.t.data[home], Dist(T, home, pos))
                       /\ \A p \in Slots \ {q, pos, home} :
                             m.t.data[p] = data_[p]

(* C29: contains(e) is true exactly when some bit i < MAX_DIST is set in the *)
(* hop bitmap of the home slot h of e and the element of slot                *)
(* (h + i) mod capacity equals e.                                            *)
C29_ContainsReadsNeighbourhood ==
    \A e \in Elems \cup ClusterProbes :
        LET h == hash_value(T, e)
        IN  contains(T, e)
              <=> \E i \in 0..(MAX_DIST - 1) :
                     /\ get_hop(data_[h], i)
                     /\ data_[(h + i) % max_size_].elem = e

(* C30: find_pos(e) returns an index below the capacity whose slot is        *)
(* unoccupied or holds e, and every slot from the home of e up to it, in     *)
(* probe order with wraparound, is occupied by another element.              *)
C30_FindPosFirstStop ==
    \A e \in Elems \cup ClusterProbes :
        FindPosTerminates(T, e) =>
            LET h == hash_value(T, e)
                p == find_pos(T, e)
            IN  /\ p \in Slots
                /\ ~data_[p].occupied \/ data_[p].elem = e
                /\ \A k \in 0..(Dist(T, h, p) - 1) :
                      LET s == (h + k) % max_size_
                      IN  data_[s].occupied /\ data_[s].elem # e

(* a probe that starts on the last but one slot, wraps round the end of the  *)
(* array and stops MAX_DIST slots after its home                             *)
C30_ProbeWrapped ==
    \E e \in ClusterProbes :
        /\ FindPosTerminates(T, e)
        /\ find_pos(T, e) < hash_value(T, e)
        /\ Dist(T, hash_value(T, e), find_pos(T, e)) = MAX_DIST

(* the MAX_DIST slots from h on each hold an element whose home the slot is, *)
(* and the slot after them is empty                                          *)
FullNeighbourhood(t, h) ==
    /\ \A k \in 0..(MAX_DIST - 1) :
          LET s == (h + k) % t.max
          IN  t.data[s].occupied /\ hash_value(t, t.data[s].elem) = s
    /\ ~t.data[(h + MAX_DIST) % t.max].occupied

(* C31: an insert(e) of a new element whose home h has a full neighbourhood  *)
(* of elements on their own homes, with slot h + MAX_DIST empty and no       *)
(* expand due, returns true, moves the element of slot h + 1 to slot         *)
(* h + MAX_DIST (modulo the capacity), stores e in slot h + 1 and leaves     *)
(* every other slot's element and occupancy as they were, so that the        *)
(* iteration visits the occupied slots in ascending order.                   *)
C31_DisplacesNeighbour ==
    [][(/\ last'.op = "insert"
        /\ FullNeighbourhood(T, hash_value(T, last'.arg))
        /\ data_[hash_value(T, last'.arg)].elem # last'.arg
        /\ ~NeedsExpand(T))
          => LET e == last'.arg
                 h == hash_value(T, e)
                 near == (h + 1) % max_size_
                 far == (h + MAX_DIST) % max_size_
                 t1 == [data |-> data_', size |-> size_', max |-> max_size_']
             IN  /\ last'.ret /\ ~last'.threw
                 /\ max_size_' = max_size_
                 /\ size_' = size_ + 1
                 /\ data_'[far].occupied
                 /\ data_'[far].elem = data_[near].elem
                 /\ data_'[near].occupied
                 /\ data_'[near].elem = e
                 /\ \A p \in Slots \ {near, far} :
                       /\ data_'[p].elem = data_[p].elem
                       /\ data_'[p].occupied = data_[p].occupied
                 /\ \A i \in 1..Len(visits(t1, begin(t1))) :
                       data_'[visits(t1, begin(t1))[i]].occupied]_vars

(* C32: in every state every insert ends: when insert(e) gets as far as      *)
(* find_pos (contains(e) is false), the array it probes, after the expand    *)
(* if one is due, has a slot that is unoccupied or holds e.                  *)
C32_InsertTerminates ==
    \A e \in Elems \cup ClusterProbes :
        (~contains(T, e) /\ ~NeedsExpand(T)) => FindPosTerminates(T, e)

(* C33: in every state no two occupied slots hold equal elements.            *)
C33_NoElementTwice ==
    \A p, q \in 0..(max_size_ - 1) :
        (p # q /\ data_[p].occupied /\ data_[q].occupied)
            => data_[p].elem # data_[q].elem

(* C34: an element can be inserted again after it was removed.  When         *)
(* remove(e) returned true and the next call is insert(e), that insert       *)
(* returns true, size() grows by 1 and contains(e) is true afterwards.       *)
C34_ReinsertAfterRemove ==
    [][(/\ last.op = "remove" /\ last.ret /\ ~last.threw
        /\ last'.op = "insert" /\ last'.arg = last.arg)
          => /\ last'.ret /\ ~last'.threw
             /\ size_' = size_ + 1
             /\ contains([data |-> data_', size |-> size_', max |-> max_size_'],
                         last.arg)]_vars

(* C35: load-factor bound.  In every state size() is at most                 *)
(* floor(max_size() * 0.8), and at least one slot of the array is            *)
(* unoccupied.                                                               *)
C35_LoadFactorBound ==
    /\ ~SizeGE(size_, LoadLimit(max_size_) + 1)
    /\ \E p \in 0..(max_size_ - 1) : ~data_[p].occupied

(* C36: the bitmap operations are independent of occupancy.  On the cell of  *)
(* every slot of every state, set_hop(i) and clear_hop(i) change bit i of    *)
(* the hop bitmap only: the occupied flag and the element stay as they are.  *)
C36_HopIndependentOfOccupancy ==
    \A p \in 0..(max_size_ - 1) : \A i \in 0..(MAX_DIST - 1) :
        /\ set_hop(data_[p], i) =
              [data_[p] EXCEPT !.hop_info = @ \cup {i}]
        /\ clear_hop(data_[p], i) =
              [data_[p] EXCEPT !.hop_info = @ \ {i}]

(* C37: backward iteration mirrors forward iteration.  From end(), repeated  *)
(* -- visits exactly the occupied slots, in descending index order, the last *)
(* of them the slot of begin(); -- never leaves the cursor before index 0    *)
(* and ++ never leaves it past index max_size().                             *)
C37_BackwardMirrorsForward ==
    LET b == rvisits(T, end(T))
        f == visits(T, begin(T))
        occ == {p \in Slots : data_[p].occupied}
    IN  /\ \A k \in 1..Len(b) : b[k] >= 0
        /\ {b[k] : k \in 1..Len(b)} = occ
        /\ \A k \in 1..(Len(b) - 1) : b[k] > b[k + 1]
        /\ Len(b) > 0 => b[Len(b)] = begin(T)
        /\ \A k \in 1..Len(f) : iter_inc(T, f[k]) <= end(T)

(* every allocated node and its parent and children point at each other,    *)
(* and root_ is the one node without a parent                               *)
LinksConsistent(t) ==
    /\ t.root_ # 0 => t.nodes[t.root_].allocated
    /\ \A n \in NodeIds :
          t.nodes[n].allocated =>
              /\ \A c \in {t.nodes[n].left_, t.nodes[n].right_} \ {0} :
                    t.nodes[c].allocated /\ t.nodes[c].parent_ = n
              /\ IF t.nodes[n].parent_ = 0
                 THEN t.root_ = n
                 ELSE /\ t.nodes[t.nodes[n].parent_].allocated
                      /\ n \in {t.nodes[t.nodes[n].parent_].left_,
                                 t.nodes[t.nodes[n].parent_].right_}

(* C38: avl_tree contents.  After every insert and remove the links of all   *)
(* nodes are mutually consistent, the traversal from begin() yields the      *)
(* elements inserted and not removed, each once and in strictly ascending    *)
(* order, and size() is their number.                                        *)
C38_TreeContents ==
    tree.op # "none" =>
        /\ ~tree.t.crashed
        /\ LinksConsistent(tree.t)
        /\ LET v == traversal(tree.t, avl_begin(tree.t), MaxTreeNodes + 1)
           IN  /\ {v[k] : k \in 1..Len(v)} = tree.elems
               /\ \A k \in 1..(Len(v) - 1) : v[k] < v[k + 1]
        /\ tree.t.size_ = Cardinality(tree.elems)

(* C39: avl_tree balance.  After every insert and remove every node stores   *)
(* the height 1 + max(height of its children), an absent child counting as   *)
(* -1, and the heights of its two subtrees differ by at most                 *)
(* ALLOWED_IMBALANCE.                                                        *)
C39_TreeBalanced ==
    (tree.op # "none" /\ ~tree.t.crashed /\ ~Dangling(tree.t)) =>
        \A n \in NodeIds :
            tree.t.nodes[n].allocated =>
                /\ tree.t.nodes[n].height_ = calc_height(tree.t, n)
                /\ abs(height(tree.t, tree.t.nodes[n].left_)
                        - height(tree.t, tree.t.nodes[n].right_))
                      <= ALLOWED_IMBALANCE

====
